---- MODULE Spec2Model ----
(***************************************************************************)
(* lazythumbs: the LazyThumbRenderer view (views.py) and the geometry and  *)
(* URL helpers (util.py).                                                  *)
(*                                                                         *)
(* Strings are sequences of one-character strings, so that prefix tests,   *)
(* joins, splits and regular-expression matches are computed the way the   *)
(* code computes them.  A Python exception is a value of the form          *)
(* [kind |-> "raise", exc |-> <class name>, line |-> <source line>].       *)
(***************************************************************************)
EXTENDS Integers, Sequences, FiniteSets, TLC

\* Python values carry their type: None, int, str, object
PyNone == [t |-> "none"]

PyInt(n) == [t |-> "int", v |-> n]

PyStr(x) == [t |-> "str", v |-> x]

----------------------------------------------------------------------------
(* String helpers                                                          *)

StartsWith(s, p) == Len(s) >= Len(p) /\ SubSeq(s, 1, Len(p)) = p

EndsWith(s, p) == Len(s) >= Len(p) /\ SubSeq(s, Len(s) - Len(p) + 1, Len(s)) = p

\* os.path.join(a, b) for two components (posixpath)
os_path_join(a, b) ==
    IF StartsWith(b, <<"/">>) THEN b
    ELSE IF a = <<>> \/ EndsWith(a, <<"/">>) THEN a \o b
    ELSE a \o <<"/">> \o b

\* positions at which the character c occurs in s
Occurrences(s, c) == {i \in 1..Len(s) : s[i] = c}

\* geometry.split('x'): the list of pieces between the occurrences of 'x'
RECURSIVE str_split(_, _)
str_split(s, c) ==
    IF Occurrences(s, c) = {} THEN <<s>>
    ELSE LET i == CHOOSE k \in Occurrences(s, c) :
                      \A j \in Occurrences(s, c) : k <= j
         IN  <<SubSeq(s, 1, i - 1)>> \o str_split(SubSeq(s, i + 1, Len(s)), c)

----------------------------------------------------------------------------
(* Outcomes of a call                                                      *)

Raise(exc, line) ==
    [t |-> "raise", kind |-> "raise", exc |-> exc, line |-> line]

\* HttpResponse(status=..., content_type='image/jpeg') with Cache-Control
HttpResponse(status, body, max_age) ==
    [kind |-> "response", status |-> status, body |-> body, max_age |-> max_age]

----------------------------------------------------------------------------
(* Name resolution in views.py                                             *)

\* names bound at module level by the import and class statements
ModuleNames ==
    {"md5", "json", "os", "re", "types", "settings", "cache",
     "FileSystemStorage", "ContentFile", "SuspiciousOperation",
     "HttpResponse", "View", "ImageOps", "Image", "LazyThumbRenderer"}

\* attributes an instance inherits from django's generic View
ViewAttrs ==
    {"http_method_names", "as_view", "dispatch", "http_method_not_allowed",
     "request", "args", "kwargs"}

\* names bound in the body of class LazyThumbRenderer
ClassAttrs ==
    {"fs", "action", "_allowed_actions", "get", "render_and_save",
     "cache_key", "hash_", "two_hundered", "four_oh_four", "thumbnail",
     "resize"}

\* getattr(self, name) succeeds
HasAttr(name) == name \in ClassAttrs \cup ViewAttrs

\* a name used in a function body resolves: a local of the function or a
\* module-level name
Bound(name, locals) == name \in locals \cup ModuleNames

\* parameters and assigned names of get
GetLocals ==
    {"self", "request", "action", "geometry", "source_path", "w", "h",
     "cache_key", "source_meta", "was_404", "rendered_path", "f", "raw_data",
     "response", "expires"}

\* parameters and assigned names of render_and_save
RenderAndSaveLocals ==
    {"self", "img_path", "width", "height", "action_hash", "rendered_path",
     "raw_data"}

\* the methods marked with @action
ActionMethods == {"thumbnail", "resize"}

\* names whose lookup on an instance runs a @property getter
Properties == {"_allowed_actions"}

\* the property _allowed_actions: for every name a in dir(self) it evaluates
\* getattr(self, a); dir(self) holds the name of the property itself, whose
\* getattr runs the getter again, without end
_allowed_actions ==
    LET dir_self == ClassAttrs \cup ViewAttrs
    IN  IF dir_self \cap Properties # {}
        THEN [t |-> "raise", kind |-> "raise", exc |-> "RuntimeError",
              line |-> 44]
        ELSE [kind |-> "value",
              val |-> {a \in dir_self : a \in ActionMethods}]

----------------------------------------------------------------------------
(* Settings                                                                *)

\* settings.THUMBNAIL_404_CACHE_TIMEOUT / settings.THUMBNAIL_CACHE_TIMEOUT,
\* the max-age of the Cache-Control header
NegativeMaxAge == "THUMBNAIL_404_CACHE_TIMEOUT"
PositiveMaxAge == "THUMBNAIL_CACHE_TIMEOUT"
\* settings.LAZYTHUMB_CACHE_TIMEOUT / settings.LAZYTHUMB_404_CACHE_TIMEOUT,
\* the lifetimes of the records in the cache
PositiveTTL == "LAZYTHUMB_CACHE_TIMEOUT"
NegativeTTL == "LAZYTHUMB_404_CACHE_TIMEOUT"

----------------------------------------------------------------------------
(* LazyThumbRenderer: responses, hashing, rendering                        *)

\* the object a name that is no local denotes, were the module to bind it
Global(name) == <<"global", name>>

\* a returned value
Value(v) == [kind |-> "value", val |-> v]

\* an outcome together with the state the call leaves behind;
\* m = [cache, files, ops, up]: the metadata cache, the files in storage,
\* the operations on cache and storage the request has performed so far,
\* and whether the cache backend answers while the request is handled
Result(out, m) == [out |-> out, m |-> m]

\* a response returned at a line of get
Return(response, line) ==
    [kind |-> "response", status |-> response.status, body |-> response.body,
     max_age |-> response.max_age, line |-> line]

Did(m, op) == [m EXCEPT !.ops = Append(@, op)]

four_oh_four == HttpResponse(404, <<>>, NegativeMaxAge)

\* number of conversions in the format string '%s:%s:%s:%s'
FormatConversions == 4

\* hash_: the right operand of % is img_path alone (a string, one value),
\* the format string wants four: TypeError for every argument
hash_(img_path, action, width, height) ==
    LET supplied == <<img_path>>
    IN  IF Len(supplied) # FormatConversions
        THEN Raise("TypeError", 146)
        ELSE Value(<<"md5", supplied>>)

cache_key(img_path, action, width, height) ==
    LET hashed == hash_(img_path, action, width, height)
    IN  IF hashed.kind = "raise" THEN hashed
        ELSE Value(<<"lazythumbs:", hashed.val>>)

\* thumbnail / resize: Image.open(img) reads the local img, which the same
\* statement is the first to assign
thumbnail(img_path, width, height) == Raise("UnboundLocalError", 182)

resize(img_path, width, height) == Raise("UnboundLocalError", 208)

\* lines 183-194 of thumbnail for an image img of the size <<size[1],
\* size[2]>> = img.size: the box handed to img.resize, the box handed to
\* img.crop (<<>> without a crop) and the size of the image returned.
\* int(img.size[1] * (float(width) / img.size[0])) is the floor of the
\* quotient wherever img.size[0] is a power of two
thumbnail_box(size, width, height) ==
    LET do_crop == height = PyNone
        height1 == IF do_crop THEN (size[2] * width.v) \div size[1]
                   ELSE height.v
        width2 == IF width.v <= size[2] THEN width.v ELSE size[2]
        height2 == IF height1 <= size[1] THEN height1 ELSE size[1]
    IN  [resize |-> <<width2, height2>>,
         crop |-> IF do_crop THEN <<0, 0, width2, width2>> ELSE <<>>,
         size |-> IF do_crop THEN <<width2, width2>> ELSE <<width2, height2>>]

\* getattr(self, action)(img_path, width, height)
dispatch(action, img_path, width, height) ==
    IF action = "thumbnail" THEN thumbnail(img_path, width, height)
    ELSE IF action = "resize" THEN resize(img_path, width, height)
    ELSE Raise("TypeError", 118)

render_and_save(m, img_path, width, height) ==
    IF ~Bound("action", RenderAndSaveLocals)
    THEN Result(Raise("NameError", 116), m)
    ELSE
    LET action_hash == hash_(img_path, Global("action"), width, height)
    IN  IF action_hash.kind = "raise" THEN Result(action_hash, m)
        ELSE
        LET rendered_path == <<"shard", action_hash.val>>
            raw_data == dispatch(Global("action"), img_path, width, height)
        IN  IF raw_data.kind = "raise"
            THEN Result(raw_data, Did(m, "dispatch"))
            ELSE Result(Value(<<rendered_path, raw_data>>),
                        [Did(Did(m, "dispatch"), "fs.save")
                            EXCEPT !.files = @ \cup {rendered_path}])

----------------------------------------------------------------------------
(* LazyThumbRenderer.get                                                   *)

\* lines 69-73: w, h = geometry.split('x'), ValueError unless two pieces
geometry_split(geometry) ==
    LET parts == str_split(geometry, "x")
    IN  IF Len(parts) = 2 THEN <<parts[1], parts[2]>>
        ELSE <<geometry, PyNone>>

\* lines 69-75: the cache key of a request; w and h are computed and the
\* key is asked for width and height, names get never binds
get_key(source_path, action, geometry) ==
    LET wh == geometry_split(geometry)
    IN  IF ~(Bound("width", GetLocals) /\ Bound("height", GetLocals))
        THEN Raise("NameError", 75)
        ELSE cache_key(source_path, action, Global("width"), Global("height"))

\* lines 78-92: a record was found in the cache
get_hit(m, source_meta) ==
    IF ~Bound("img_meta", GetLocals)
    THEN Result(Raise("NameError", 79), m)
    ELSE \* the finally clause returns self.two_hundred(raw_data) whatever
         \* the try block did
         IF ~HasAttr("two_hundred")
         THEN Result(Raise("AttributeError", 92), Did(m, "fs.open"))
         ELSE Result(Return(HttpResponse(200, Global("raw_data"),
                                         PositiveMaxAge), 92),
                     Did(m, "fs.open"))

\* lines 94-106: no record in the cache; cache.set at line 104 has no
\* handler around it, what the backend raises leaves get
get_miss(m, key, source_path) ==
    LET m1 == Did(m, "fs.exists")
    IN  IF source_path \in m.files
        THEN IF ~(Bound("width", GetLocals) /\ Bound("height", GetLocals))
             THEN Result(Raise("NameError", 95), m1)
             ELSE
             LET r == render_and_save(m1, source_path, Global("width"),
                                      Global("height"))
             IN  IF r.out.kind = "raise" THEN r
                 ELSE IF ~HasAttr("two_hundred")
                 THEN Result(Raise("AttributeError", 96), r.m)
                 ELSE IF ~m.up
                 THEN Result(Raise("CacheError", 104), Did(r.m, "cache.set"))
                 ELSE Result(Return(HttpResponse(200, r.out.val[2],
                                                 PositiveMaxAge), 106),
                             [Did(r.m, "cache.set") EXCEPT !.cache =
                                 @ \cup {[key |-> key,
                                          rendered_path |-> r.out.val[1],
                                          was_404 |-> FALSE,
                                          expires |-> PositiveTTL]}])
        ELSE IF ~HasAttr("four_hundred")
             THEN Result(Raise("AttributeError", 100), m1)
             ELSE IF ~m.up
             THEN Result(Raise("CacheError", 104), Did(m1, "cache.set"))
             ELSE Result(Return(HttpResponse(400, <<>>, NegativeMaxAge), 106),
                         [Did(m1, "cache.set") EXCEPT !.cache =
                             @ \cup {[key |-> key, rendered_path |-> <<>>,
                                      was_404 |-> TRUE,
                                      expires |-> NegativeTTL]}])

\* get(self, request, action, geometry, source_path) with
\* settings.THUMBNAIL_SOURCE_PATH = root, from the state m; cache.get at
\* line 76 has no handler around it either
get(m, root, action, geometry, source_path) ==
    LET joined == os_path_join(root, source_path)
    IN  IF StartsWith(joined, <<"/">>)
        THEN Result(Return(four_oh_four, 63), m)
        ELSE IF StartsWith(joined, <<".", ".", "/">>)
        THEN Result(Return(four_oh_four, 65), m)
        ELSE IF ~HasAttr("allowed_actions")
        THEN Result(Raise("AttributeError", 66), m)
        ELSE IF _allowed_actions.kind = "raise"
        THEN Result(_allowed_actions, m)
        ELSE IF action \notin _allowed_actions.val
        THEN Result(Return(four_oh_four, 67), m)
        ELSE
        LET key == get_key(joined, action, geometry)
        IN  IF key.kind = "raise" THEN Result(key, m)
            ELSE
            LET m1 == Did(m, "cache.get")
                found == {e \in m.cache : e.key = key.val}
            IN  IF ~m.up THEN Result(Raise("CacheError", 76), m1)
                ELSE IF found # {}
                THEN get_hit(m1, CHOOSE e \in found : TRUE)
                ELSE get_miss(m1, key.val, joined)

----------------------------------------------------------------------------
(* util.py: geometry_parse, build_geometry                                 *)

Digits == {"0", "1", "2", "3", "4", "5", "6", "7", "8", "9"}

\* \d+
IsDigits(s) == Len(s) > 0 /\ \A i \in 1..Len(s) : s[i] \in Digits

DigitValue(c) ==
    CASE c = "0" -> 0 [] c = "1" -> 1 [] c = "2" -> 2 [] c = "3" -> 3
      [] c = "4" -> 4 [] c = "5" -> 5 [] c = "6" -> 6 [] c = "7" -> 7
      [] c = "8" -> 8 [] c = "9" -> 9

\* int(s) of a string of decimal digits
RECURSIVE int(_)
int(s) ==
    IF Len(s) = 0 THEN 0
    ELSE 10 * int(SubSeq(s, 1, Len(s) - 1)) + DigitValue(s[Len(s)])

\* re.match(r'^(\d+)(?:x\d+)?$', geometry): the first group, or None
width_match(geometry) ==
    LET parts == str_split(geometry, "x")
    IN  IF Len(parts) = 1 /\ IsDigits(parts[1]) THEN PyStr(parts[1])
        ELSE IF Len(parts) = 2 /\ IsDigits(parts[1]) /\ IsDigits(parts[2])
        THEN PyStr(parts[1])
        ELSE PyNone

\* re.match(r'^(?:\d+)?x(\d+)$', geometry): the first group, or None
height_match(geometry) ==
    LET parts == str_split(geometry, "x")
    IN  IF Len(parts) = 2 /\ (parts[1] = <<>> \/ IsDigits(parts[1]))
            /\ IsDigits(parts[2])
        THEN PyStr(parts[2])
        ELSE PyNone

\* truth value: None, 0 and '' are false
Truthy(x) ==
    \/ x.t = "int" /\ x.v # 0
    \/ x.t = "str" /\ x.v # <<>>
    \/ x.t = "obj"

\* a or b
PyOr(a, b) == IF Truthy(a) THEN a ELSE b

geometry_parse(action, geometry, exc) ==
    IF ~(Truthy(width_match(geometry)) \/ Truthy(height_match(geometry)))
    THEN Raise(exc, 26)
    ELSE
    LET width == IF Truthy(width_match(geometry))
                 THEN PyInt(int(width_match(geometry).v)) ELSE PyNone
        height == IF Truthy(height_match(geometry))
                  THEN PyInt(int(height_match(geometry).v)) ELSE PyNone
    IN  IF ~Truthy(PyOr(width, height)) /\ ~(action = "thumbnail")
        THEN LET height2 == PyOr(width, height)
                 width2 == PyOr(width, height2)
             IN  Value(<<width2, height2>>)
        ELSE Value(<<width, height>>)

\* build_geometry(width, height): str(n) of an int is its decimal digits
DigitChar(d) ==
    CASE d = 0 -> "0" [] d = 1 -> "1" [] d = 2 -> "2" [] d = 3 -> "3"
      [] d = 4 -> "4" [] d = 5 -> "5" [] d = 6 -> "6" [] d = 7 -> "7"
      [] d = 8 -> "8" [] d = 9 -> "9"

RECURSIVE str(_)
str(n) ==
    IF n < 10 THEN <<DigitChar(n)>>
    ELSE str(n \div 10) \o <<DigitChar(n % 10)>>

\* str(x) of a value: of '' it is '', of an int its digits
PyToStr(x) == IF x.t = "int" THEN PyStr(str(x.v)) ELSE x

\* '%s' % x: of None it is 'None', of an int its digits, of a str itself
Fmt(x) ==
    IF x.t = "none" THEN <<"N", "o", "n", "e">>
    ELSE IF x.t = "int" THEN str(x.v)
    ELSE x.v

\* build_geometry with the 'x' of the second return left out
build_geometry_no_x(width, height) ==
    IF Truthy(width) /\ Truthy(height)
    THEN Fmt(width) \o <<"x">> \o Fmt(height)
    ELSE IF ~Truthy(width) THEN Fmt(height)
    ELSE Fmt(width)

build_geometry(width, height) ==
    IF Truthy(width) /\ Truthy(height)
    THEN Fmt(width) \o <<"x">> \o Fmt(height)
    ELSE IF ~Truthy(width) THEN <<"x">> \o Fmt(height)
    ELSE Fmt(width)

----------------------------------------------------------------------------
(* util.py: quack, compute_img                                             *)

\* an object with the attributes of the record attrs
Obj(attrs) == [t |-> "obj", attrs |-> attrs]

hasattr(thing, name) == thing.t = "obj" /\ name \in DOMAIN thing.attrs

\* getattr(thing, name, default)
getattr(thing, name, default) ==
    IF hasattr(thing, name) THEN thing.attrs[name] ELSE default

\* the least index of a non-empty set of indices
First(S) == CHOOSE i \in S : \A j \in S : i <= j

quack(thing, properties, levels, default) ==
    IF thing = PyNone THEN default
    ELSE
    LET nested == [i \in 1..Len(levels) |-> getattr(thing, levels[i], PyNone)]
        to_search == <<thing>> \o SelectSeq(nested, Truthy)
        \* first(partial(hasattr, t), properties, default)
        has(t) == \E i \in 1..Len(properties) : hasattr(t, properties[i])
        prop(t) == properties[First({i \in 1..Len(properties) :
                                        hasattr(t, properties[i])})]
        \* 'if prop' holds for a found name, and for a default that is true
        hit(t) == has(t) \/ Truthy(default)
    IN  IF \E i \in 1..Len(to_search) : hit(to_search[i])
        THEN LET t == to_search[First({i \in 1..Len(to_search) :
                                          hit(to_search[i])})]
             IN  IF has(t) THEN t.attrs[prop(t)]
                 ELSE Raise("AttributeError", 79)
        ELSE default

\* settings.MEDIA_URL
MEDIA_URL == <<"http://media/">>

\* getattr(settings, 'LAZYTHUMBS_URL', '/')
LAZYTHUMBS_URL == "/"

\* a URL is a sequence of pieces; the pieces that begin with 'http'
HttpPieces == {"http://media/", "http://other/"}

url_startswith_http(url) == Len(url) > 0 /\ url[1] \in HttpPieces

\* url.replace(settings.MEDIA_URL, '')
url_replace_media(url) ==
    LET keep(piece) == <<piece>> # MEDIA_URL IN SelectSeq(url, keep)

\* exit(u, w, h): dict(src=urljoin(MEDIA_URL, u), width=str(w or ''),
\* height=str(h or ''))
exit(u, w, h) ==
    [src |-> <<"urljoin", MEDIA_URL, u>>,
     width |-> PyToStr(PyOr(w, PyStr(<<>>))),
     height |-> PyToStr(PyOr(h, PyStr(<<>>)))]

source_width(t) ==
    quack(t, <<"width">>, <<"photo", "image">>, PyStr(<<>>))

source_height(t) ==
    quack(t, <<"height">>, <<"photo", "image">>, PyStr(<<>>))

\* scale = lambda a, b, c: int(a * (float(b) / c)), for a an int; the
\* quotient is exact where c is a power of two
scale(a, b, c) ==
    IF b.t # "int" THEN Raise("TypeError", 127)
    ELSE IF c.t # "int" THEN Raise("TypeError", 127)
    ELSE IF c.v = 0 THEN Raise("ZeroDivisionError", 127)
    ELSE PyInt((a.v * b.v) \div c.v)

\* lines 125-137: the dimensions after the thumbnail scaling, or the
\* exception it raises
thumbnail_dims(img_object, action, width, height) ==
    IF ~(action = "thumbnail" /\ Truthy(img_object))
    THEN Value(<<width, height>>)
    ELSE
    LET s_w == source_width(img_object)
        s_h == source_height(img_object)
        width1 == IF ~Truthy(width) /\ Truthy(s_w)
                  THEN scale(s_w, height, s_h) ELSE width
    IN  IF width1.t = "raise" THEN width1
        ELSE
        LET height1 == IF ~Truthy(height) /\ Truthy(s_h)
                       THEN scale(s_h, width1, s_w) ELSE height
        IN  IF height1.t = "raise" THEN height1
            ELSE Value(<<width1, height1>>)

\* lines 139-156: upscale guard, render URL, dummy mode
compute_src(img_object, url, action, geometry, width, height, dummy) ==
    LET s_w == source_width(img_object)
        s_h == source_height(img_object)
    IN  IF Truthy(img_object) /\ Truthy(s_w) /\ Truthy(width)
            /\ width.v >= s_w.v
        THEN exit(url, s_w, s_h)
        ELSE IF Truthy(img_object) /\ Truthy(s_h) /\ Truthy(height)
            /\ height.v >= s_h.v
        THEN exit(url, PyOr(s_w, source_width(img_object)), s_h)
        ELSE IF dummy
        THEN exit(PyStr(<<"http://placekitten.com/", width, "/", height>>),
                  width, height)
        ELSE exit(PyStr(<<LAZYTHUMBS_URL, "lt_cache/", action, "/", geometry,
                          "/">> \o url.v), width, height)

\* compute_img(thing, action, geometry) with settings.LAZYTHUMBS_DUMMY =
\* dummy; thing is a str or an object
compute_img(thing, action, geometry, dummy) ==
    LET img_object == IF thing.t = "str" THEN PyNone ELSE thing
        url == IF thing.t = "str" THEN thing
               ELSE quack(thing, <<"name", "url", "path">>,
                          <<"photo", "image">>, PyNone)
    IN  IF ~Truthy(url)
        THEN exit(url, source_width(img_object), source_height(img_object))
        ELSE
        LET url1 == IF url_startswith_http(url.v)
                    THEN PyStr(url_replace_media(url.v)) ELSE url
        IN  IF url_startswith_http(url1.v)
            THEN [url |-> url1, width |-> PyStr(<<>>), height |-> PyStr(<<>>)]
            ELSE
            LET parsed == geometry_parse(action, geometry, "ValueError")
            IN  IF parsed.kind = "raise"
                THEN exit(url1, source_width(img_object),
                          source_height(img_object))
                ELSE
                LET dims == thumbnail_dims(img_object, action, parsed.val[1],
                                           parsed.val[2])
                IN  IF dims.kind = "raise" THEN dims
                    ELSE compute_src(img_object, url1, action, geometry,
                                     dims.val[1], dims.val[2], dummy)

\* the call ended in an exception
IsRaise(r) == "kind" \in DOMAIN r /\ r.kind = "raise"

\* get_img_attrs(thing, action, width, height): the geometry string is
\* built from the two arguments and handed to compute_img
get_img_attrs(thing, action, width, height, dummy) ==
    LET geometry == IF Truthy(width) /\ ~Truthy(height)
                    THEN Fmt(width)
                    ELSE Fmt(PyOr(width, PyStr(<<>>))) \o <<"x">>
                             \o Fmt(height)
    IN  compute_img(thing, action, geometry, dummy)

\* get_img_url(thing, action, width, height):
\* get_img_attrs(thing, action, width, height)['src']
get_img_url(thing, action, width, height, dummy) ==
    LET attrs == get_img_attrs(thing, action, width, height, dummy)
    IN  IF IsRaise(attrs) THEN attrs
        ELSE IF "src" \notin DOMAIN attrs THEN Raise("KeyError", 163)
        ELSE Value(attrs.src)

----------------------------------------------------------------------------
(* The renderer serving requests                                           *)

VARIABLES
    root,      \* settings.THUMBNAIL_SOURCE_PATH
    files,     \* the paths at which the storage (fs) holds a file
    evicted,   \* the rendered assets that were removed from the storage
    cache,     \* django's cache: the records set and not yet expired
    req,       \* per request: its arguments, its position and its outcome
    call       \* the last direct call of a method or helper, with its result

vars == <<root, files, evicted, cache, req, call>>

\* number of requests in flight at once
NumRequests == 2

Requests == 1..NumRequests

P_a == <<"a">>
P_up_a == <<".", ".", "/", "a">>
P_abs_a == <<"/", "a">>
P_a_up_b == <<"a", "/", ".", ".", "/", "b">>

\* source paths of the requests
SourcePaths == {P_a, P_up_a, P_abs_a, P_a_up_b}

\* values of settings.THUMBNAIL_SOURCE_PATH: unset, relative, absolute
Roots == {<<>>, <<"m">>, <<"/", "m">>}

\* action names of the requests: the two actions, a method that is no
\* action, a name of nothing
ActionNames == {"thumbnail", "resize", "hash_", "rotate"}

G_100 == <<"1", "0", "0">>
G_100x100 == <<"1", "0", "0", "x", "1", "0", "0">>

Geometries == {G_100, G_100x100}

\* the source images an uploader may put into or take out of the storage
Uploads == {P_a}

\* rendered assets live at the sharded paths render_and_save builds
IsAsset(f) == Len(f) > 0 /\ f[1] = "shard"

Idle == [pc |-> "idle"]

NoCall == [fn |-> "none"]

Init ==
    /\ root \in Roots
    /\ files = {}
    /\ evicted = {}
    /\ cache = {}
    /\ req = [p \in Requests |-> Idle]
    /\ call = NoCall

\* the state in which a helper of util.py is called on its own
InitCall == Init /\ root = <<>>

\* a request arrives: the URL supplies action, geometry and source path;
\* the cache backend answers or fails while the request is handled
Request(p) ==
    /\ req[p].pc = "idle"
    /\ \E a \in ActionNames, g \in Geometries, s \in SourcePaths,
          up \in BOOLEAN :
         req' = [req EXCEPT ![p] =
                    [pc |-> "called", action |-> a, geometry |-> g,
                     source_path |-> s, cache_up |-> up,
                     after |-> {q \in Requests : req[q].pc = "done"}]]
    /\ UNCHANGED <<root, files, evicted, cache, call>>

\* the view handles the request
Get(p) ==
    /\ req[p].pc = "called"
    /\ LET r == get([cache |-> cache, files |-> files, ops |-> <<>>,
                     up |-> req[p].cache_up], root,
                    req[p].action, req[p].geometry, req[p].source_path)
       IN  /\ cache' = r.m.cache
           /\ files' = r.m.files
           /\ req' = [req EXCEPT ![p] =
                        [pc |-> "done", action |-> req[p].action,
                         geometry |-> req[p].geometry,
                         source_path |-> req[p].source_path,
                         cache_up |-> req[p].cache_up,
                         after |-> req[p].after,
                         records |-> cache,
                         out |-> r.out, ops |-> r.m.ops,
                         source_found |->
                            os_path_join(root, req[p].source_path) \in files,
                         asset_found |-> \E f \in files : IsAsset(f),
                         added |-> r.m.cache \ cache]]
    /\ UNCHANGED <<root, evicted, call>>

\* a source image is put into the storage
Upload(s) ==
    /\ os_path_join(root, s) \notin files
    /\ files' = files \cup {os_path_join(root, s)}
    /\ UNCHANGED <<root, evicted, cache, req, call>>

\* a file, source image or rendered asset, is removed from the storage
Remove(f) ==
    /\ f \in files
    /\ files' = files \ {f}
    /\ evicted' = IF IsAsset(f) THEN evicted \cup {f} ELSE evicted
    /\ UNCHANGED <<root, cache, req, call>>

\* lines 69-76 of get and line 116 of render_and_save, for two geometries
\* of one source path and action: the cache keys and the storage paths
DeriveKeys(a, s, g1, g2) ==
    /\ call = NoCall
    /\ call' = [fn |-> "get_key", action |-> a, source_path |-> s,
                g1 |-> g1, g2 |-> g2,
                k1 |-> get_key(os_path_join(root, s), a, g1),
                k2 |-> get_key(os_path_join(root, s), a, g2),
                saved |-> render_and_save(
                              [cache |-> {}, files |-> {}, ops |-> <<>>,
                               up |-> TRUE],
                              os_path_join(root, s), geometry_split(g1)[1],
                              geometry_split(g1)[2]).out]
    /\ UNCHANGED <<root, files, evicted, cache, req>>

G_x100 == <<"x", "1", "0", "0">>
G_100x50 == <<"1", "0", "0", "x", "5", "0">>

KeyGeometries == {G_100, G_100x100, G_x100, G_100x50}

NextKey ==
    /\ call = NoCall
    /\ \E a \in ActionNames, s \in SourcePaths, g1, g2 \in KeyGeometries :
           DeriveKeys(a, s, g1, g2)

SpecKey == Init /\ [][NextKey]_vars

\* longest geometry string tried
MaxGeoLen == 4

GeoChars == {"0", "1", "2", "x", "b"}

GeoStrings == UNION {[1..n -> GeoChars] : n \in 0..MaxGeoLen}

ParseActions == {"thumbnail", "resize", "scale"}

\* geometry_parse(a, g, ValueError)
Parse(a, g) ==
    /\ call = NoCall
    /\ call' = [fn |-> "geometry_parse", action |-> a, geometry |-> g,
                result |-> geometry_parse(a, g, "ValueError")]
    /\ UNCHANGED <<root, files, evicted, cache, req>>

NextParse ==
    /\ call = NoCall
    /\ \E a \in ParseActions, g \in GeoStrings : Parse(a, g)

SpecParse == InitCall /\ [][NextParse]_vars

\* longest geometry string handed to compute_img
MaxImgGeoLen == 3

\* the characters of the geometry strings handed to compute_img
ImgGeoChars == {"0", "2", "x"}

ImgGeometries == UNION {[1..n -> ImgGeoChars] : n \in 0..MaxImgGeoLen}

\* what a descriptor may expose as name: a local path, a URL under
\* MEDIA_URL, a URL of another host
NameValues ==
    {PyStr(<<"a.jpg">>), PyStr(<<"http://media/", "a.jpg">>),
     PyStr(<<"http://other/", "a.jpg">>)}

\* what a descriptor may expose as width or height; the non-zero ones are
\* powers of two
DimValues == {PyInt(0), PyInt(2), PyInt(4)}

\* the attribute records over a set of names: any subset of the names
\* present, each with one of its values
DescriptorValues(k) == IF k = "name" THEN NameValues ELSE DimValues

AttrRecords(names) ==
    UNION {{f \in [D -> NameValues \cup DimValues] :
                \A k \in D : f[k] \in DescriptorValues(k)} :
           D \in SUBSET names}

\* descriptors: strings; objects with name, width and height of their own;
\* objects whose width and height sit on a nested image
Things ==
    {PyStr(<<>>)} \cup NameValues
    \cup {Obj(f) : f \in AttrRecords({"name", "width", "height"})}
    \cup {Obj([name |-> PyStr(<<"a.jpg">>), image |-> Obj(d)]) :
            d \in AttrRecords({"width", "height"})}

\* compute_img(thing, a, g) under settings.LAZYTHUMBS_DUMMY = dummy
Compute(thing, a, g, dummy) ==
    /\ call = NoCall
    /\ call' = [fn |-> "compute_img", thing |-> thing, action |-> a,
                geometry |-> g, dummy |-> dummy,
                result |-> compute_img(thing, a, g, dummy)]
    /\ UNCHANGED <<root, files, evicted, cache, req>>

\* what a caller may pass to get_img_url as width or height: nothing
\* (None, the default of get_img_url), '' (that of get_img_attrs), an int
UrlDims == {PyNone, PyStr(<<>>), PyInt(2)}

\* get_img_url(thing, a, width, height) under settings.LAZYTHUMBS_DUMMY =
\* dummy
GetImgUrl(thing, a, width, height, dummy) ==
    /\ call = NoCall
    /\ call' = [fn |-> "get_img_url", thing |-> thing, action |-> a,
                width |-> width, height |-> height, dummy |-> dummy,
                result |-> get_img_url(thing, a, width, height, dummy)]
    /\ UNCHANGED <<root, files, evicted, cache, req>>

NextImg ==
    /\ call = NoCall
    /\ \/ \E thing \in Things, a \in {"thumbnail", "resize"},
              g \in ImgGeometries, dummy \in BOOLEAN :
               Compute(thing, a, g, dummy)
       \/ \E thing \in Things, a \in {"thumbnail", "resize"},
              width, height \in UrlDims, dummy \in BOOLEAN :
               GetImgUrl(thing, a, width, height, dummy)

SpecImg == InitCall /\ [][NextImg]_vars

\* what an attribute a or b of an object may hold: '' or a value that
\* names the attribute and its owner
QuackValues(owner, k) == {PyStr(<<>>), PyStr(<<owner, k>>)}

\* objects with any of the attributes a and b
QuackObjects(owner) ==
    UNION {{Obj(f) : f \in {g \in [D -> QuackValues(owner, "a")
                                        \cup QuackValues(owner, "b")] :
                                 \A k \in D : g[k] \in QuackValues(owner, k)}} :
           D \in SUBSET {"a", "b"}}

\* things handed to quack: None, objects without a container n, objects
\* whose n is None, objects whose n is an object
QuackThings ==
    {PyNone} \cup QuackObjects("top")
    \cup {Obj([k \in DOMAIN o.attrs \cup {"n"} |->
                  IF k = "n" THEN n ELSE o.attrs[k]]) :
            o \in QuackObjects("top"), n \in {PyNone} \cup QuackObjects("n")}

QuackProperties == {<<"a", "b">>, <<"b", "a">>, <<"b">>}

\* no level, the container n, an absent container m before n
QuackLevels == {<<>>, <<"n">>, <<"m", "n">>}

QuackDefaults == {PyNone, PyStr(<<>>), PyStr(<<"d">>)}

\* quack(thing, properties, levels, default)
Quack(thing, properties, levels, default) ==
    /\ call = NoCall
    /\ call' = [fn |-> "quack", thing |-> thing, properties |-> properties,
                levels |-> levels, default |-> default,
                result |-> quack(thing, properties, levels, default)]
    /\ UNCHANGED <<root, files, evicted, cache, req>>

NextQuack ==
    /\ call = NoCall
    /\ \E thing \in QuackThings, properties \in QuackProperties,
          levels \in QuackLevels, default \in QuackDefaults :
           Quack(thing, properties, levels, default)

SpecQuack == InitCall /\ [][NextQuack]_vars

\* largest width or height handed to build_geometry
MaxDim == 12

\* a width or height handed to build_geometry: None or an int
GeoDims == {PyNone} \cup {PyInt(n) : n \in 0..MaxDim}

\* build_geometry(width, height), the string parsed for a thumbnail and
\* the pair parsed built into a string again
BuildGeometry(width, height) ==
    /\ call = NoCall
    /\ LET geometry == build_geometry(width, height)
           parsed == geometry_parse("thumbnail", geometry, "ValueError")
       IN  call' = [fn |-> "build_geometry", width |-> width,
                    height |-> height, geometry |-> geometry,
                    parsed |-> parsed,
                    rebuilt |-> IF parsed.kind = "raise" THEN <<>>
                                ELSE build_geometry(parsed.val[1],
                                                    parsed.val[2])]
    /\ UNCHANGED <<root, files, evicted, cache, req>>

NextGeo ==
    /\ call = NoCall
    /\ \E width, height \in GeoDims : BuildGeometry(width, height)

SpecGeo == InitCall /\ [][NextGeo]_vars

\* sides of the source images: powers of two
Sides == {1, 2, 4, 8}

\* largest width or height asked of thumbnail
MaxSide == 8

\* thumbnail(img_path, width, height) on a source image of the given size
Thumbnail(size, width, height) ==
    /\ call = NoCall
    /\ call' = [fn |-> "thumbnail", size |-> size, width |-> width,
                height |-> height,
                result |-> thumbnail(P_a, width, height),
                box |-> thumbnail_box(size, width, height)]
    /\ UNCHANGED <<root, files, evicted, cache, req>>

NextThumb ==
    /\ call = NoCall
    /\ \E size \in Sides \X Sides, width \in 1..MaxSide,
          height \in {0} \cup 1..MaxSide :
           Thumbnail(size, PyInt(width),
                     IF height = 0 THEN PyNone ELSE PyInt(height))

SpecThumb == InitCall /\ [][NextThumb]_vars

Next ==
    \/ \E p \in Requests : Request(p)
    \/ \E p \in Requests : Get(p)
    \/ \E s \in Uploads : Upload(s)
    \/ \E f \in files : Remove(f)

Spec == Init /\ [][Next]_vars

----------------------------------------------------------------------------
(* Vocabulary of the properties                                            *)

Done(p) == req[p].pc = "done"

\* the source path has a parent-directory segment or begins with the root
\* marker
UnsafePath(s) ==
    \/ StartsWith(s, <<"/">>)
    \/ \E i \in 1..Len(str_split(s, "/")) : str_split(s, "/")[i] = <<".", ".">>

\* a request the pipeline is meant to resolve: safe path, registered
\* action, the cache backend answering
Valid(p) ==
    /\ ~UnsafePath(req[p].source_path)
    /\ req[p].action \in ActionMethods
    /\ req[p].cache_up

\* q is a repetition of p: same arguments, made once p was done, the cache
\* backend as it was for p
Repeats(q, p) ==
    /\ Done(p) /\ Done(q) /\ p \in req[q].after
    /\ req[q].cache_up = req[p].cache_up
    /\ req[q].action = req[p].action
    /\ req[q].geometry = req[p].geometry
    /\ req[q].source_path = req[p].source_path

NotFound(out) == out.kind = "response" /\ out.status = 404

Served(out) == out.kind = "response" /\ out.status = 200

Performed(p, names) == \E i \in 1..Len(req[p].ops) : req[p].ops[i] \in names

StorageOps == {"fs.exists", "fs.open", "fs.save"}

CacheOps == {"cache.get", "cache.set"}

\* op a comes before op b in the request's operations
Precedes(p, a, b) ==
    \E i, j \in 1..Len(req[p].ops) :
        i < j /\ req[p].ops[i] = a /\ req[p].ops[j] = b

----------------------------------------------------------------------------
(* Properties                                                              *)

\* C1 (negative hit): a request for a key whose source is absent returns
\* NotFound, and a repetition of it, the source still absent, returns
\* NotFound as well without any storage operation and without dispatching a
\* transformation.
C1_NegativeHit ==
    \A p, q \in Requests :
        (Repeats(q, p) /\ Valid(p)
            /\ ~req[p].source_found /\ ~req[q].source_found)
        => /\ NotFound(req[p].out)
           /\ NotFound(req[q].out)
           /\ ~Performed(q, StorageOps \cup {"dispatch"})

\* C2 (positive hit): once a request has rendered and saved the asset of a
\* key and set its record, a repetition of the request, no asset having been
\* removed from the storage, is served the same bytes without dispatching a
\* transformation and without saving again.
C2_PositiveHit ==
    \A p, q \in Requests :
        (Repeats(q, p) /\ Valid(p) /\ req[p].source_found /\ evicted = {})
        => /\ Served(req[p].out)
           /\ Served(req[q].out)
           /\ req[q].out.body = req[p].out.body
           /\ ~Performed(q, {"dispatch", "fs.save"})

\* C3 (self-heal): a repetition of a request whose source exists, handled
\* while the storage holds no rendered asset, renders and saves again and is
\* served an image: neither an error nor NotFound reaches the caller.
C3_SelfHeal ==
    \A p, q \in Requests :
        (Repeats(q, p) /\ Valid(p) /\ req[p].source_found
            /\ req[q].source_found /\ ~req[q].asset_found)
        => /\ Served(req[q].out)
           /\ Precedes(q, "dispatch", "fs.save")

\* C4 (stampede): when concurrent first-time requests for one key with an
\* existing source are all done, the storage holds exactly one asset, every
\* request was served the same bytes, and a positive record points at the
\* asset.
C4_Stampede ==
    ((\A p \in Requests :
          /\ Done(p) /\ Valid(p) /\ req[p].source_found
          /\ req[p].after = {}
          /\ req[p].action = req[1].action
          /\ req[p].geometry = req[1].geometry
          /\ req[p].source_path = req[1].source_path)
      /\ evicted = {})
    => /\ Cardinality({f \in files : IsAsset(f)}) = 1
       /\ \A p \in Requests :
              Served(req[p].out) /\ req[p].out.body = req[1].out.body
       /\ \E e \in cache : ~e.was_404 /\ e.rendered_path \in files

\* the lines at which a transformation or the save can fail
RenderLines == {118, 119} \cup (170..209)

C6_UnsafePathsRejected ==
    \A p \in Requests :
        Done(p) =>
            IF UnsafePath(req[p].source_path)
            THEN /\ NotFound(req[p].out) /\ req[p].out.line \in {63, 65}
                 /\ req[p].ops = <<>>
            ELSE ~(NotFound(req[p].out) /\ req[p].out.line \in {63, 65})

\* C7 (only registered actions): a request whose action is not in the
\* registry of @action methods gets NotFound before any cache or storage
\* operation, and nothing is dispatched for a name outside the registry.
C7_OnlyRegisteredActions ==
    \A p \in Requests :
        Done(p) =>
            /\ req[p].action \notin ActionMethods
                => NotFound(req[p].out) /\ req[p].ops = <<>>
            /\ Performed(p, {"dispatch"}) => req[p].action \in ActionMethods

\* the geometry strings that denote one target under an action: always a
\* string and itself; for an action other than thumbnail also 'W', 'xW' and
\* 'WxW'
SameTarget(a, g1, g2) ==
    \/ g1 = g2
    \/ a # "thumbnail" /\ {g1, g2} \subseteq {G_100, G_100x100, G_x100}

\* C8 (cache key): two requests with the same source path and action whose
\* geometries denote the same target derive the same cache key, and the
\* asset has a storage path derived from it.
C8_CacheKey ==
    (call.fn = "get_key" /\ call.action \in ActionMethods
        /\ ~UnsafePath(call.source_path)
        /\ SameTarget(call.action, call.g1, call.g2))
    => /\ call.k1.kind = "value"
       /\ call.k2 = call.k1
       /\ call.saved.kind = "value"

\* the three forms of a geometry string
FormW(g) == IsDigits(g)

FormWxH(g) ==
    /\ Len(str_split(g, "x")) = 2
    /\ IsDigits(str_split(g, "x")[1]) /\ IsDigits(str_split(g, "x")[2])

FormxH(g) ==
    /\ Len(str_split(g, "x")) = 2
    /\ str_split(g, "x")[1] = <<>> /\ IsDigits(str_split(g, "x")[2])

\* C9 (geometry_parse): 'WxH' gives (W, H); 'W' gives (W, None) under
\* thumbnail and (W, W) under any other action; 'xH' gives (None, H) under
\* thumbnail and no absent dimension under any other action; any other
\* string raises the supplied exception.
C9_GeometryParse ==
    call.fn = "geometry_parse" =>
        LET g == call.geometry
            r == call.result
            parts == str_split(g, "x")
        IN  IF FormWxH(g)
            THEN r = Value(<<PyInt(int(parts[1])), PyInt(int(parts[2]))>>)
            ELSE IF FormW(g)
            THEN r = Value(<<PyInt(int(g)),
                             IF call.action = "thumbnail"
                             THEN PyNone ELSE PyInt(int(g))>>)
            ELSE IF FormxH(g)
            THEN IF call.action = "thumbnail"
                 THEN r = Value(<<PyNone, PyInt(int(parts[2]))>>)
                 ELSE /\ r.kind = "value"
                      /\ r.val[1] # PyNone /\ r.val[2] # PyNone
            ELSE r = Raise("ValueError", 26)

\* the dimensions a geometry string asks for under an action: 'WxH' asks
\* for (W, H), 'W' and 'xH' for one dimension under thumbnail and for a
\* square under any other action
Requested(a, g) ==
    LET parts == str_split(g, "x")
    IN  IF FormWxH(g) THEN <<PyInt(int(parts[1])), PyInt(int(parts[2]))>>
        ELSE IF FormW(g)
        THEN <<PyInt(int(g)),
               IF a = "thumbnail" THEN PyNone ELSE PyInt(int(g))>>
        ELSE <<IF a = "thumbnail" THEN PyNone ELSE PyInt(int(parts[2])),
               PyInt(int(parts[2]))>>

\* the same with the dimension a thumbnail leaves out derived from the
\* natural aspect ratio
Target(a, g, s_w, s_h) ==
    LET r == Requested(a, g)
    IN  <<IF r[1] = PyNone THEN PyInt((s_w.v * r[2].v) \div s_h.v) ELSE r[1],
          IF r[2] = PyNone THEN PyInt((s_h.v * r[1].v) \div s_w.v) ELSE r[2]>>

Parsable(g) == FormW(g) \/ FormWxH(g) \/ FormxH(g)

\* the result carries an lt_cache render URL
IsRenderUrl(r) ==
    /\ "src" \in DOMAIN r
    /\ r.src[3].t = "str" /\ Len(r.src[3].v) > 1
    /\ r.src[3].v[1] = LAZYTHUMBS_URL /\ r.src[3].v[2] = "lt_cache/"

\* the URL the descriptor resolves to
ResolvedUrl(thing) ==
    IF thing.t = "str" THEN thing
    ELSE quack(thing, <<"name", "url", "path">>, <<"photo", "image">>,
               PyNone)

\* the descriptor resolves to a URL that is local once MEDIA_URL is
\* stripped, so that the guard is what decides its result
LocalUrl(thing) ==
    /\ Truthy(ResolvedUrl(thing))
    /\ ~url_startswith_http(url_replace_media(ResolvedUrl(thing).v))

\* C10 (upscale guard): for a descriptor object with a local URL and known
\* natural width and height and for a parsable geometry, a requested (for
\* thumbnail: aspect-derived) width >= the natural width or height >= the
\* natural height gives the original URL with the natural dimensions and
\* never an lt_cache render URL.
C10_UpscaleGuard ==
    (/\ call.fn = "compute_img"
     /\ call.thing.t = "obj"
     /\ LocalUrl(call.thing)
     /\ Parsable(call.geometry)
     /\ Truthy(source_width(call.thing))
     /\ Truthy(source_height(call.thing)))
    => LET s_w == source_width(call.thing)
           s_h == source_height(call.thing)
           want == Target(call.action, call.geometry, s_w, s_h)
       IN  (want[1].v >= s_w.v \/ want[2].v >= s_h.v)
           => /\ "src" \in DOMAIN call.result
              /\ ~IsRenderUrl(call.result)
              /\ call.result.src[3].v =
                     url_replace_media(ResolvedUrl(call.thing).v)
              /\ call.result.width = PyStr(str(s_w.v))
              /\ call.result.height = PyStr(str(s_h.v))

\* the URL a result carries as src: the second argument of the urljoin
SrcUrl(r) == r.src[3]

\* the descriptor resolves to a URL of another host than MEDIA_URL
ExternalUrl(thing) ==
    /\ Truthy(ResolvedUrl(thing))
    /\ url_startswith_http(url_replace_media(ResolvedUrl(thing).v))

\* C11 (result shape): whenever compute_img returns, the result has exactly
\* the fields src, width and height; for a URL of another host src is that
\* URL and width and height are empty; and get_img_url never fails for
\* want of a src in what compute_img returned.
C11_ResultShape ==
    /\ (call.fn = "compute_img" /\ ~IsRaise(call.result))
        => /\ DOMAIN call.result = {"src", "width", "height"}
           /\ ExternalUrl(call.thing)
                => /\ SrcUrl(call.result) = ResolvedUrl(call.thing)
                   /\ call.result.width = PyStr(<<>>)
                   /\ call.result.height = PyStr(<<>>)
    /\ call.fn = "get_img_url"
        => \/ call.result.kind = "value"
           \/ call.result.exc # "KeyError"

\* the natural dimension as compute_img reports it: str(s or '')
Natural(s) == PyToStr(PyOr(s, PyStr(<<>>)))

\* C15 (compute_img never raises): every call of compute_img returns; for
\* a local URL and an unparsable geometry it returns the original URL with
\* the natural dimensions of the descriptor.
C15_NeverRaises ==
    call.fn = "compute_img" =>
        /\ ~IsRaise(call.result)
        /\ (LocalUrl(call.thing) /\ ~Parsable(call.geometry))
            => /\ "src" \in DOMAIN call.result
               /\ SrcUrl(call.result).v =
                      url_replace_media(ResolvedUrl(call.thing).v)
               /\ call.result.width =
                      Natural(source_width(
                          IF call.thing.t = "str" THEN PyNone
                          ELSE call.thing))
               /\ call.result.height =
                      Natural(source_height(
                          IF call.thing.t = "str" THEN PyNone
                          ELSE call.thing))

\* C12 (thumbnail, height unset): for a source of size SW x SH and a width
\* w <= SW, thumbnail returns an image; the box it resizes to is
\* (w, floor(SH * w / SW)) and the crop box is that box anchored at (0, 0),
\* so the image returned has that size.
C12_ThumbnailCrop ==
    (/\ call.fn = "thumbnail"
     /\ call.height = PyNone
     /\ call.width.v <= call.size[1])
    => LET w == call.width.v
           h == (call.size[2] * w) \div call.size[1]
       IN  /\ call.result.kind = "value"
           /\ call.box.resize = <<w, h>>
           /\ call.box.crop = <<0, 0, w, h>>
           /\ call.box.size = <<w, h>>

C13_CacheControl ==
    \A p \in Requests :
        Done(p) =>
            \/ Served(req[p].out) /\ req[p].out.max_age = PositiveMaxAge
            \/ NotFound(req[p].out) /\ req[p].out.max_age = NegativeMaxAge

\* C14 (cache outage): a request with a safe path, a registered action and
\* an existing source, handled while the cache backend fails, still renders,
\* saves and is served the image.
C14_CacheOutage ==
    \A p \in Requests :
        (/\ Done(p)
         /\ ~UnsafePath(req[p].source_path)
         /\ req[p].action \in ActionMethods
         /\ req[p].source_found
         /\ ~req[p].cache_up)
        => /\ Served(req[p].out)
           /\ Precedes(p, "dispatch", "fs.save")

\* a positive record with the positive TTL among the records the request
\* has set
SetPositive(p) ==
    \E e \in req[p].added : ~e.was_404 /\ e.expires = PositiveTTL

\* a negative record with the negative TTL among the records the request
\* has set
SetNegative(p) ==
    \E e \in req[p].added : e.was_404 /\ e.expires = NegativeTTL

\* C17 (self-heal sets the record again): a repetition of a request whose
\* source exists, handled while the storage holds no rendered asset, saves
\* the asset again and then sets a positive record with the positive TTL.
C17_SelfHealSetsRecord ==
    \A p, q \in Requests :
        (Repeats(q, p) /\ Valid(p) /\ req[p].source_found
            /\ req[q].source_found /\ ~req[q].asset_found)
        => /\ SetPositive(q)
           /\ Precedes(q, "fs.save", "cache.set")

\* C18 (records expire and are resolved again): a request that finds no
\* record for its key sets a negative record with the negative TTL where
\* the source is absent and a positive record with the positive TTL where
\* it is present; and a repetition of a request for an absent source,
\* handled when no record is left and the source exists, checks the source,
\* renders, saves, is served and sets a positive record.
C18_ExpiryResolvesAgain ==
    /\ \A p \in Requests :
           (Done(p) /\ Valid(p) /\ req[p].records = {})
           => IF req[p].source_found THEN SetPositive(p) ELSE SetNegative(p)
    /\ \A p, q \in Requests :
           (Repeats(q, p) /\ Valid(p) /\ ~req[p].source_found
               /\ req[q].source_found /\ req[q].records = {})
           => /\ Served(req[q].out)
              /\ Precedes(q, "fs.exists", "dispatch")
              /\ Precedes(q, "dispatch", "fs.save")
              /\ SetPositive(q)

\* the values of the candidate properties, in order, on the object itself
\* and then on each container of levels that is present
Candidates(thing, properties, levels) ==
    LET present(l) == Truthy(getattr(thing, l, PyNone))
        containers == SelectSeq(levels, present)
        objects == <<thing>> \o [i \in 1..Len(containers) |->
                                    thing.attrs[containers[i]]]
        n == Len(properties)
    IN  [i \in 1..(Len(objects) * n) |->
            getattr(objects[((i - 1) \div n) + 1],
                    properties[((i - 1) % n) + 1], PyNone)]

\* C19 (quack): the result is the first candidate value that is present
\* and not empty, the default where there is none and for thing = None;
\* quack never raises.
C19_Quack ==
    call.fn = "quack" =>
        IF call.thing = PyNone THEN call.result = call.default
        ELSE LET c == Candidates(call.thing, call.properties, call.levels)
                 hits == {i \in 1..Len(c) : Truthy(c[i])}
             IN  IF hits = {} THEN call.result = call.default
                 ELSE call.result = c[First(hits)]

\* a positive int
Positive(x) == x.t = "int" /\ x.v > 0

\* the digits of a positive int n and no others: no leading zero
Denotes(digits, n) ==
    IsDigits(digits) /\ digits[1] # "0" /\ int(digits) = n.v

\* C20 (canonical geometry is a fixed point of parsing): for positive ints
\* w and h build_geometry gives 'wxh' for (w, h), 'xh' for (None, h) and
\* 'w' for (w, None); geometry_parse('thumbnail', .) of that string gives
\* the pair back, and build_geometry of the pair parsed gives the string
\* back.
C20_CanonicalRoundTrip ==
    (/\ call.fn = "build_geometry"
     /\ Positive(call.width) \/ call.width = PyNone
     /\ Positive(call.height) \/ call.height = PyNone
     /\ ~(call.width = PyNone /\ call.height = PyNone))
    => LET g == call.geometry
           parts == str_split(g, "x")
       IN  /\ IF call.height = PyNone
              THEN Denotes(g, call.width)
              ELSE /\ Len(parts) = 2
                   /\ Denotes(parts[2], call.height)
                   /\ IF call.width = PyNone THEN parts[1] = <<>>
                      ELSE Denotes(parts[1], call.width)
           /\ call.parsed = Value(<<call.width, call.height>>)
           /\ call.rebuilt = g

\* a height of two digits without a width has made the round trip: built
\* into 'x12', parsed into (None, 12), built into 'x12' again
C20_Witness ==
    /\ call.fn = "build_geometry"
    /\ call.width = PyNone /\ call.height = PyInt(12)
    /\ call.geometry = <<"x", "1", "2">>
    /\ call.parsed = Value(<<PyNone, PyInt(12)>>)
    /\ call.rebuilt = call.geometry

====
